---- MODULE Spec2Model ----
(***************************************************************************)
(* Model of the invoice extraction service: the two request handlers of    *)
(* api.py (get_invoice_data, get_invoice_data_text) and the PDF helpers of *)
(* pdf_utils.py (extract_invoice_data_pdf, get_cords_of_word).             *)
(*                                                                         *)
(* One behaviour is one request.  A Python dict is a sequence of           *)
(* [key, val] pairs in insertion order.  A PDF is a sequence of pages, a   *)
(* page the set of literal strings that occur on it.                       *)
(***************************************************************************)
EXTENDS Integers, Sequences, FiniteSets, TLC

\* ------------------------------------------------------------------ bounds
MaxPages == 2
MaxItems == 1

\* ------------------------------------------------------- input domains
\* Literal strings that may occur on a page of the PDF.
PageStrings == {"V1", "A1"}

Pages == SUBSET PageStrings

RECURSIVE SeqsUpTo(_, _)
SeqsUpTo(S, n) ==
    IF n = 0 THEN {<<>>}
    ELSE LET shorter == SeqsUpTo(S, n - 1)
         IN  shorter \cup {Append(s, x) : s \in {t \in shorter : Len(t) = n - 1}, x \in S}

Pdfs == SeqsUpTo(Pages, MaxPages)

\* JSON values as json.loads yields them: a string, null, or a list.
Str(s) == [kind |-> "str", s |-> s, items |-> <<>>]
Null == [kind |-> "null", s |-> "", items |-> <<>>]
List(items) == [kind |-> "list", s |-> "", items |-> items]

\* Keys of a line item and the value the completion service gives each.
ItemKeys == {"ItemCode", "Quantity"}

ItemValue(k) == IF k = "ItemCode" THEN "A1" ELSE "100"

\* A line item: a dict over distinct item keys, in any order, possibly empty.
ItemPair(k) == [key |-> k, val |-> ItemValue(k)]

Items ==
    {it \in SeqsUpTo({ItemPair(k) : k \in ItemKeys}, Cardinality(ItemKeys)) :
        \A a, b \in 1..Len(it) : a # b => it[a].key # it[b].key}

TopKeys == {"CardCode", "DiscountPercent", "DocumentLines"}

\* Values the completion service may return under each top-level key of the
\* prompt's schema; the service is not bound to the schema (a null, a list
\* under a scalar key).
FieldValues(k) ==
    CASE k = "CardCode" -> {Str("V1"), Null}
      [] k = "DiscountPercent" -> {Str("10"), List(<<<<ItemPair("ItemCode")>>>>)}
      [] OTHER -> {List(items) : items \in SeqsUpTo(Items, MaxItems)}

RECURSIVE DictsOver(_)
DictsOver(keys) ==
    {<<>>} \cup
    UNION {{<<[key |-> k, val |-> v]>> \o d : v \in FieldValues(k), d \in DictsOver(keys \ {k})} :
              k \in keys}

Invoices == DictsOver(TopKeys)

\* ------------------------------------------------------------ pdf_utils.py
\* Fault variant: the list misses the discount field.
not_include_keys_short == {"Quantity", "TaxCode", "UnitPrice"}

not_include_keys == {"DiscountPercent", "Quantity", "TaxCode", "UnitPrice"}

\* page.search(v, regex=False, case=True): the match geometries of the
\* literal v on the page, empty when v does not occur.
search(page, v) == IF v \in page THEN <<[text |-> v]>> ELSE <<>>

\* page.search raises for a pattern that is not a string.
SearchRaises(value) == value.kind # "str"

\* Fault variant: a new key goes to the front of the dict.
DictSet_prepend(d, key, entry) == <<[key |-> key, entry |-> entry]>> \o d

\* text_with_cords[key] = entry
DictSet(d, key, entry) ==
    IF \E i \in 1..Len(d) : d[i].key = key
    THEN [i \in 1..Len(d) |-> IF d[i].key = key THEN [key |-> key, entry |-> entry] ELSE d[i]]
    ELSE Append(d, [key |-> key, entry |-> entry])

One(value, cords) == [kind |-> "one", value |-> value, cords |-> cords, recs |-> <<>>]
Many(recs) == [kind |-> "many", value |-> "", cords |-> <<>>, recs |-> recs]

\* Fault variant: a field is recorded only when the page holds its value.
StoreScalar_foundOnly(twc, key, value, cords) ==
    IF cords = <<>> THEN twc ELSE Append(twc, [key |-> key, entry |-> One(value, cords)])

\* text_with_cords[key] = {"value": value, "cords": data}
StoreScalar(twc, key, value, cords) == DictSet(twc, key, One(value, cords))

\* Fault variant: the loop over the pairs of an item has no break.
VisitedPairs_all(item) == item

\* The pairs of item the loop `for k, v in item.items(): ...; break` visits.
VisitedPairs(item) == IF item = <<>> THEN <<>> ELSE <<item[1]>>

LogEntry(idx, key, elem, k, v) ==
    [page |-> idx, field |-> key, elem |-> elem, key |-> k, value |-> v]

\* Body of the inner loop over the visited pairs of one item.
RECURSIVE PairsLoop(_, _, _, _, _, _, _)
PairsLoop(pairs, n, page, idx, key, elem, acc) ==
    IF n > Len(pairs) THEN acc
    ELSE PairsLoop(pairs, n + 1, page, idx, key, elem,
            [recs |-> Append(acc.recs, [value |-> pairs[n].val, cords |-> search(page, pairs[n].val)]),
             log  |-> Append(acc.log, LogEntry(idx, key, elem, pairs[n].key, pairs[n].val))])

\* for item in value: ...
RECURSIVE ItemsLoop(_, _, _, _, _, _)
ItemsLoop(items, i, page, idx, key, acc) ==
    IF i > Len(items) THEN acc
    ELSE ItemsLoop(items, i + 1, page, idx, key,
            PairsLoop(VisitedPairs(items[i]), 1, page, idx, key, i, acc))

\* for key, value in gpt_json_data.items(): ...   on one page.
\* acc = [ok, twc, log]: ok is FALSE once a search has raised.
RECURSIVE FieldsLoop(_, _, _, _, _)
FieldsLoop(inv, j, page, idx, acc) ==
    IF j > Len(inv) \/ ~acc.ok THEN acc
    ELSE LET key == inv[j].key
             value == inv[j].val
         IN  IF key \in not_include_keys
             THEN FieldsLoop(inv, j + 1, page, idx, acc)
             ELSE IF value.kind = "list"
             THEN LET r == ItemsLoop(value.items, 1, page, idx, key,
                                     [recs |-> <<>>, log |-> acc.log])
                  IN  FieldsLoop(inv, j + 1, page, idx,
                         [ok |-> TRUE, twc |-> DictSet(acc.twc, key, Many(r.recs)), log |-> r.log])
             ELSE IF SearchRaises(value)
             THEN [ok |-> FALSE, twc |-> acc.twc,
                   log |-> Append(acc.log, LogEntry(idx, key, 0, key, value.s))]
             ELSE FieldsLoop(inv, j + 1, page, idx,
                     [ok |-> TRUE,
                      twc |-> StoreScalar(acc.twc, key, value.s, search(page, value.s)),
                      log |-> Append(acc.log, LogEntry(idx, key, 0, key, value.s))])

\* One iteration of `for idx, page in enumerate(pdf.pages)`.
PageResult(inv, page, idx, log) == FieldsLoop(inv, 1, page, idx, [ok |-> TRUE, twc |-> <<>>, log |-> log])

\* ------------------------------------------------------------------ api.py
\* Fault variant: the handler answers with what the scan had gathered.
Boundary_partial(e, partial) == [status |-> 200, detail |-> e, body |-> partial]

\* except Exception as e: raise HTTPException(status_code=500, detail=str(e))
Boundary(e, partial) == [status |-> 500, detail |-> e, body |-> <<>>]

\* Fault variant: only the image endpoint checks its input.
IsMissing_imageOnly(kind, empty) == empty /\ kind = "image"

\* `if not image_urls.imageUrl` / `if not pdf_path`
IsMissing(kind, empty) == empty

\* raise HTTPException(status_code=400, detail=...)
MissingInput(kind) ==
    [status |-> 400,
     detail |-> IF kind = "image" THEN "No image URLs provided" ELSE "No text provided",
     body |-> <<>>]

\* res_list.insert(0, json_data)
InsertFront(res_list, x) == <<x>> \o res_list

Malformed == [ok |-> FALSE, obj |-> <<>>]

\* ------------------------------------------------------------------- state
VARIABLES
    reqKind,        \* "image" or "text": which endpoint the request is for
    inputEmpty,     \* the imageUrl list, resp. pdf_path, is empty
    pdf,            \* the pages of the file at pdf_path
    pc,             \* the handler's position
    handles,        \* number of PDF handles currently open
    inFlight,       \* a completion-service call is outstanding
    pageIdx,        \* pages the current loop over pdf.pages has completed
    data,           \* extract_invoice_data_pdf: pages whose text was appended
    result,         \* the completion service's reply
    json_data,      \* json.loads(result)
    all_pages_data, \* get_cords_of_word: the PageMatch records so far
    responses,      \* responses sent to the caller
    raised,         \* messages of the exceptions raised inside the try block
    events,         \* history of external calls
    searchLog       \* history of page.search calls

vars == <<reqKind, inputEmpty, pdf, pc, handles, inFlight, pageIdx, data, result,
          json_data, all_pages_data, responses, raised, events, searchLog>>

Init ==
    /\ reqKind \in {"image", "text"}
    /\ inputEmpty \in BOOLEAN
    /\ pdf \in IF reqKind = "text" /\ ~inputEmpty THEN Pdfs ELSE {<<>>}
    /\ pc = "start"
    /\ handles = 0
    /\ inFlight = FALSE
    /\ pageIdx = 0
    /\ data = <<>>
    /\ result = Malformed
    /\ json_data = <<>>
    /\ all_pages_data = <<>>
    /\ responses = <<>>
    /\ raised = <<>>
    /\ events = <<>>
    /\ searchLog = <<>>

\* An exception e leaves the try block: caught once, answered once.
Fail(e) ==
    /\ raised' = Append(raised, e)
    /\ responses' = Append(responses, Boundary(e, all_pages_data))
    /\ pc' = "done"

\* The input check that opens each handler.
Validate ==
    /\ pc = "start"
    /\ IF IsMissing(reqKind, inputEmpty)
       THEN /\ responses' = Append(responses, MissingInput(reqKind))
            /\ pc' = "done"
       ELSE /\ pc' = IF reqKind = "image" THEN "complete" ELSE "extract_open"
            /\ UNCHANGED responses
    /\ UNCHANGED <<reqKind, inputEmpty, pdf, handles, inFlight, pageIdx, data, result,
                   json_data, all_pages_data, raised, events, searchLog>>

\* extract_invoice_data_pdf: with pdfplumber.open(pdf_path) as pdf
ExtractOpen ==
    /\ pc = "extract_open"
    /\ events' = Append(events, "open")
    /\ \/ /\ handles' = handles + 1
          /\ pageIdx' = 0
          /\ pc' = "extract_pages"
          /\ UNCHANGED <<responses, raised>>
       \/ /\ Fail("open failed")
          /\ UNCHANGED <<handles, pageIdx>>
    /\ UNCHANGED <<reqKind, inputEmpty, pdf, inFlight, data, result, json_data,
                   all_pages_data, searchLog>>

\* Fault variant: the handle is not closed on the way out.
ExitWith_leak(h) == h

\* Leaving a with block, normally or by an exception, closes its handle.
ExitWith(h) == h - 1

\* data += page.extract_text(...)
ExtractPage ==
    /\ pc = "extract_pages"
    /\ pageIdx < Len(pdf)
    /\ events' = Append(events, "page")
    /\ \/ /\ data' = Append(data, pdf[pageIdx + 1])
          /\ pageIdx' = pageIdx + 1
          /\ UNCHANGED <<pc, handles, responses, raised>>
       \/ /\ handles' = ExitWith(handles)
          /\ Fail("extract failed")
          /\ UNCHANGED <<data, pageIdx>>
    /\ UNCHANGED <<reqKind, inputEmpty, pdf, inFlight, result, json_data,
                   all_pages_data, searchLog>>

\* return data
ExtractReturn ==
    /\ pc = "extract_pages"
    /\ pageIdx = Len(pdf)
    /\ handles' = ExitWith(handles)
    /\ events' = Append(events, "close")
    /\ pc' = "complete"
    /\ UNCHANGED <<reqKind, inputEmpty, pdf, inFlight, pageIdx, data, result, json_data,
                   all_pages_data, responses, raised, searchLog>>

\* extract_invoice_data: client.chat.completions.create(...) is sent
CompleteCall ==
    /\ pc = "complete"
    /\ inFlight' = TRUE
    /\ events' = Append(events, "call")
    /\ pc' = "completing"
    /\ UNCHANGED <<reqKind, inputEmpty, pdf, handles, pageIdx, data, result, json_data,
                   all_pages_data, responses, raised, searchLog>>

\* ... and returns response.choices[0].message.content, or raises
CompleteReturn ==
    /\ pc = "completing"
    /\ inFlight' = FALSE
    /\ events' = Append(events, "return")
    /\ \/ /\ result' \in {Malformed} \cup {[ok |-> TRUE, obj |-> inv] : inv \in Invoices}
          /\ pc' = "parse"
          /\ UNCHANGED <<responses, raised>>
       \/ /\ Fail("completion failed")
          /\ UNCHANGED result
    /\ UNCHANGED <<reqKind, inputEmpty, pdf, handles, pageIdx, data, json_data,
                   all_pages_data, searchLog>>

\* Fault variant: the text handler answers without running the locator.
AfterParse_skipLocate(kind) == "respond"

\* The statement that follows json.loads in each handler.
AfterParse(kind) == IF kind = "image" THEN "respond" ELSE "loc_open"

\* json.loads(result)
Parse ==
    /\ pc = "parse"
    /\ IF result.ok
       THEN /\ json_data' = result.obj
            /\ pc' = AfterParse(reqKind)
            /\ UNCHANGED <<responses, raised>>
       ELSE /\ Fail("json decode failed")
            /\ UNCHANGED json_data
    /\ UNCHANGED <<reqKind, inputEmpty, pdf, handles, inFlight, pageIdx, data, result,
                   all_pages_data, events, searchLog>>

\* get_cords_of_word: all_pages_data = []; with pdfplumber.open(pdf_path) as pdf
LocOpen ==
    /\ pc = "loc_open"
    /\ events' = Append(events, "open")
    /\ all_pages_data' = <<>>
    /\ \/ /\ handles' = handles + 1
          /\ pageIdx' = 0
          /\ pc' = "loc_pages"
          /\ UNCHANGED <<responses, raised>>
       \/ /\ Fail("open failed")
          /\ UNCHANGED <<handles, pageIdx>>
    /\ UNCHANGED <<reqKind, inputEmpty, pdf, inFlight, data, result, json_data, searchLog>>

\* One page of the scan: the page's PageMatch is appended, or a search raises
\* (a pattern that is no string), or the page cannot be read.
LocPage ==
    /\ pc = "loc_pages"
    /\ pageIdx < Len(pdf)
    /\ events' = Append(events, "page")
    /\ \/ LET r == PageResult(json_data, pdf[pageIdx + 1], pageIdx + 1, searchLog)
          IN  /\ searchLog' = r.log
              /\ IF r.ok
                 THEN /\ all_pages_data' = Append(all_pages_data, r.twc)
                      /\ pageIdx' = pageIdx + 1
                      /\ UNCHANGED <<pc, handles, responses, raised>>
                 ELSE /\ handles' = ExitWith(handles)
                      /\ Fail("search failed")
                      /\ UNCHANGED <<all_pages_data, pageIdx>>
       \/ /\ handles' = ExitWith(handles)
          /\ Fail("page read failed")
          /\ UNCHANGED <<all_pages_data, pageIdx, searchLog>>
    /\ UNCHANGED <<reqKind, inputEmpty, pdf, inFlight, data, result, json_data>>

\* return all_pages_data
LocReturn ==
    /\ pc = "loc_pages"
    /\ pageIdx = Len(pdf)
    /\ handles' = ExitWith(handles)
    /\ events' = Append(events, "close")
    /\ pc' = "respond"
    /\ UNCHANGED <<reqKind, inputEmpty, pdf, inFlight, pageIdx, data, result, json_data,
                   all_pages_data, responses, raised, searchLog>>

\* return json_response / res_list.insert(0, json_data); return res_list
Respond ==
    /\ pc = "respond"
    /\ responses' = Append(responses,
          [status |-> 200, detail |-> "",
           body |-> IF reqKind = "image" THEN json_data
                    ELSE InsertFront(all_pages_data, json_data)])
    /\ pc' = "done"
    /\ UNCHANGED <<reqKind, inputEmpty, pdf, handles, inFlight, pageIdx, data, result,
                   json_data, all_pages_data, raised, events, searchLog>>

Next ==
    \/ Validate
    \/ ExtractOpen
    \/ ExtractPage
    \/ ExtractReturn
    \/ CompleteCall
    \/ CompleteReturn
    \/ Parse
    \/ LocOpen
    \/ LocPage
    \/ LocReturn
    \/ Respond

Spec == Init /\ [][Next]_vars

TypeOK ==
    /\ pc \in {"start", "extract_open", "extract_pages", "complete", "completing", "parse",
               "loc_open", "loc_pages", "respond", "done"}
    /\ handles \in 0..2
    /\ pageIdx \in 0..Len(pdf)

\* ------------------------------------------------------------ properties
\* The field names the documentation excludes from the lookup.
ExcludedNames == {"DiscountPercent", "Quantity", "TaxCode", "UnitPrice"}

Count(seq, x) == Cardinality({n \in 1..Len(seq) : seq[n] = x})

IsPrefix(a, b) == Len(a) <= Len(b) /\ \A n \in 1..Len(a) : a[n] = b[n]

KeysOf(d) == [j \in 1..Len(d) |-> d[j].key]

HasKey(d, key) == \E m \in 1..Len(d) : d[m].key = key

EntryOf(twc, key) == twc[CHOOSE m \in 1..Len(twc) : twc[m].key = key].entry

\* The text-path request has answered 200.
TextSucceeded ==
    /\ reqKind = "text"
    /\ pc = "done"
    /\ Len(responses) = 1
    /\ responses[1].status = 200

\* Number of the first e elements of items that have at least one key.
NonEmptyUpTo(items, e) == Cardinality({n \in 1..e : items[n] # <<>>})

\* C1: no PageMatch record built by get_cords_of_word, on any page, has
\* DiscountPercent, Quantity, TaxCode or UnitPrice as a key; neither has any
\* record of the list the request returns.
C1_ExclusionInvariant ==
    /\ \A i \in 1..Len(all_pages_data) :
          \A j \in 1..Len(all_pages_data[i]) : all_pages_data[i][j].key \notin ExcludedNames
    /\ TextSucceeded =>
          \A i \in 2..Len(responses[1].body) :
             \A j \in 1..Len(responses[1].body[i]) :
                responses[1].body[i][j].key \notin ExcludedNames

\* C1 witness: a request has returned the records of a PDF with pages for an
\* invoice that has an excluded key.
C1_Witness ==
    /\ TextSucceeded
    /\ Len(pdf) >= 1
    /\ HasKey(json_data, "DiscountPercent")
    /\ Len(json_data) >= 2

\* C2: no page search is ever issued for the value of a field named
\* DiscountPercent, Quantity, TaxCode or UnitPrice, at the top level or
\* inside the elements of an array-valued field.
C2_NeverSearchExcluded ==
    \A n \in 1..Len(searchLog) : searchLog[n].key \notin ExcludedNames

\* C3: on every page the entry of a non-excluded array-valued field with N
\* elements is a sequence of exactly N records.
C3_ArrayCardinality ==
    \A i \in 1..Len(all_pages_data) :
       \A j \in 1..Len(json_data) :
          (json_data[j].key \notin ExcludedNames /\ json_data[j].val.kind = "list") =>
             /\ HasKey(all_pages_data[i], json_data[j].key)
             /\ Len(EntryOf(all_pages_data[i], json_data[j].key).recs)
                   = Len(json_data[j].val.items)

\* Every geometry list of the record is what the page holds for its value.
BelongsTo(twc, page) ==
    \A j \in 1..Len(twc) :
       /\ twc[j].entry.kind = "one" =>
             ((twc[j].entry.cords # <<>>) <=> (twc[j].entry.value \in page))
       /\ \A n \in 1..Len(twc[j].entry.recs) :
             (twc[j].entry.recs[n].cords # <<>>) <=> (twc[j].entry.recs[n].value \in page)

NotExcluded(k) == k \notin ExcludedNames

\* C4: the sequence get_cords_of_word returns has one PageMatch record per
\* page of the PDF, record i built from page i, and the keys of every
\* record follow the order of the keys of the parsed invoice.
C4_PageOrder ==
    /\ pc = "loc_pages" => Len(all_pages_data) = pageIdx
    /\ (pc = "respond" /\ reqKind = "text") => Len(all_pages_data) = Len(pdf)
    /\ TextSucceeded =>
          /\ Len(responses[1].body) = Len(pdf) + 1
          /\ \A i \in 1..Len(pdf) : responses[1].body[i + 1] = all_pages_data[i]
    /\ \A i \in 1..Len(all_pages_data) :
          /\ KeysOf(all_pages_data[i]) = SelectSeq(KeysOf(json_data), NotExcluded)
          /\ BelongsTo(all_pages_data[i], pdf[i])

\* C4 witness: the scan of a PDF of two different pages has returned, for an
\* invoice with two keys that are looked up.
C4_Witness ==
    /\ TextSucceeded
    /\ Len(pdf) = 2
    /\ pdf[1] # pdf[2]
    /\ Len(SelectSeq(KeysOf(json_data), NotExcluded)) >= 2

\* C5: a request with an empty image list or an empty PDF path is answered
\* with the missing-input error, and no completion call, PDF open or page
\* search is made for it.
C5_MissingInputRejected ==
    inputEmpty =>
       /\ events = <<>>
       /\ searchLog = <<>>
       /\ handles = 0
       /\ ~inFlight
       /\ pc \in {"start", "done"}
       /\ pc = "done" =>
             /\ Len(responses) = 1
             /\ responses[1].status = 400
             /\ responses[1].body = <<>>

\* C5 witness: a request with an empty input has been answered.
C5_Witness == inputEmpty /\ pc = "done" /\ Len(responses) = 1

\* C6: when a step of the request raises, the request ends with exactly one
\* response, a failure that carries the exception's message and no PageMatch
\* record or invoice; nothing is retried.
C6_SingleFailure ==
    /\ Len(responses) <= 1
    /\ Len(raised) <= 1
    /\ Count(events, "call") <= 1
    /\ raised # <<>> =>
          /\ pc = "done"
          /\ Len(responses) = 1
          /\ responses[1].status = 500
          /\ responses[1].detail = raised[1]
          /\ responses[1].body = <<>>

\* C6 witness: the scan failed on a page after an earlier page was recorded.
C6_Witness ==
    /\ raised = <<"page read failed">>
    /\ all_pages_data # <<>>
    /\ pc = "done"

\* C7: a handle opened by extract_invoice_data_pdf or get_cords_of_word is
\* open only while that function walks the pages; no request ends with a
\* handle open.
C7_HandlesReleased ==
    /\ handles \in {0, 1}
    /\ handles = 1 <=> pc \in {"extract_pages", "loc_pages"}
    /\ pc = "done" => handles = 0

\* C7 witness: the request has ended on an exception raised while pages were
\* being processed, after a page was processed.
C7_Witness ==
    /\ pc = "done"
    /\ raised # <<>>
    /\ raised[1] \in {"extract failed", "search failed", "page read failed"}
    /\ Count(events, "page") >= 2

\* C8: a value absent from a page gives an empty geometry list and no error;
\* every page's record has every non-excluded top-level key of the invoice,
\* a scalar field with its value, an array field with its sequence.
C8_NoMatchGraceful ==
    /\ \A i \in 1..Len(all_pages_data) :
          \A j \in 1..Len(json_data) :
             json_data[j].key \notin ExcludedNames =>
                /\ HasKey(all_pages_data[i], json_data[j].key)
                /\ json_data[j].val.kind = "str" =>
                      LET e == EntryOf(all_pages_data[i], json_data[j].key)
                      IN  /\ e.kind = "one"
                          /\ e.value = json_data[j].val.s
                          /\ json_data[j].val.s \notin pdf[i] => e.cords = <<>>
                /\ json_data[j].val.kind = "list" =>
                      EntryOf(all_pages_data[i], json_data[j].key).kind = "many"
    /\ raised = <<"search failed">> =>
          \E j \in 1..Len(json_data) :
             /\ json_data[j].key \notin ExcludedNames
             /\ json_data[j].val.kind \notin {"str", "list"}

\* C8 witness: the request returned the record of a page that does not hold
\* the value of a scalar field.
C8_Witness ==
    /\ TextSucceeded
    /\ \E i \in 1..Len(all_pages_data) :
          \E j \in 1..Len(all_pages_data[i]) :
             /\ all_pages_data[i][j].entry.kind = "one"
             /\ all_pages_data[i][j].entry.cords = <<>>
             /\ all_pages_data[i][j].entry.value \notin pdf[i]

TextEvents(n) ==
    <<"open">> \o [i \in 1..n |-> "page"] \o <<"close", "call", "return", "open">>
    \o [i \in 1..n |-> "page"] \o <<"close">>

\* C9 as stated: at most one completion call, the PDF opened once, and only
\* after the completion call has returned.
C9_SinglePassAfterCompletion ==
    /\ Count(events, "call") <= 1
    /\ Count(events, "open") <= 1
    /\ \A n \in 1..Len(events) :
          events[n] = "open" => \E m \in 1..(n - 1) : events[m] = "return"
    /\ ~(inFlight /\ handles > 0)

\* C9 amended: at most one completion call per request; the text path opens
\* the PDF at most twice, never while the call is outstanding: the text
\* extraction walks the pages and closes before the call is sent, the
\* locator opens only after the call has returned; a request that succeeds
\* has made both passes over every page, in that order.
C9_TwoPassesAroundCompletion ==
    /\ Count(events, "call") <= 1
    /\ Count(events, "open") <= 2
    /\ ~(inFlight /\ handles > 0)
    /\ reqKind = "image" => IsPrefix(events, <<"call", "return">>)
    /\ reqKind = "text" => IsPrefix(events, TextEvents(Len(pdf)))
    /\ TextSucceeded => events = TextEvents(Len(pdf))

\* C9 witness: a text-path request on a PDF of two pages has succeeded.
C9_Witness ==
    /\ TextSucceeded
    /\ Len(pdf) >= 2
    /\ Count(events, "open") = 2

====
